---------------------------- MODULE Spec2Model ----------------------------
(***************************************************************************)
(* Model of stac_api/models/schemas.py and stac_api/models/database.py:    *)
(* the search request model (STACSearch), the field projection engine      *)
(* (FieldsExtension) and the ingest decomposition                          *)
(* (Item.get_database_model).                                              *)
(*                                                                         *)
(* A Python str is modelled as a sequence of "."-separated segments, each  *)
(* segment a sequence of ":"-separated parts, so that str.split(".") and   *)
(* str.split(":") are computed rather than assumed:                        *)
(*     "properties.proj:epsg"  is  << <<"properties">>, <<"proj","epsg">> >>*)
(***************************************************************************)
EXTENDS Integers, Sequences, FiniteSets, TLC

VARIABLES
    DEFAULT_INCLUDES,   \* settings.DEFAULT_INCLUDES, a module-level set of str
    INDEXED_FIELDS,     \* settings.INDEXED_FIELDS, a module-level set of str
    hashSeed,           \* the process's str hash seed: fixes set iteration order
    heap,               \* FieldsExtension objects by identity; 0 is the class-level default
    reqs,               \* validated STACSearch objects in flight, by slot
    now,                \* the clock read by datetime.utcnow()
    ret                 \* what the last call returned (or raised)

vars == <<DEFAULT_INCLUDES, INDEXED_FIELDS, hashSeed, heap, reqs, now, ret>>

-----------------------------------------------------------------------------
(* Bounds of the model.                                                    *)

\* largest include / exclude set drawn for a FieldsExtension under test
MaxFields == 2
\* most fields one query references
MaxQuery == 1
\* search requests in flight at once
MaxRequests == 2
\* instants the clock runs through
MaxClock == 2

-----------------------------------------------------------------------------
(* Python str values.                                                      *)

S(name) == << <<name>> >>
S2(ns, name) == << <<ns, name>> >>

\* a + "." + b
Dot(a, b) == a \o b

\* "." in field
HasDot(field) == Len(field) > 1

\* field.split("."): the list of the segments, each a str
SplitDot(field) == [i \in 1..Len(field) |-> <<field[i]>>]

\* field.split(":")[-1]: what follows the last ":" (the whole str without one)
LastColonPart(field) ==
    LET withColon == {i \in 1..Len(field) : Len(field[i]) > 1}
    IN  IF withColon = {} THEN field
        ELSE LET i == CHOOSE j \in withColon : \A k \in withColon : k <= j
             IN  << <<field[i][Len(field[i])]>> >> \o SubSeq(field, i + 1, Len(field))

\* The values of a pydantic include/exclude selector map: the Ellipsis object
\* ("the whole field"), or a set of child keys
Ellipsis == [whole |-> TRUE, keys |-> {}]
Keys(ks) == [whole |-> FALSE, keys |-> ks]
\* a call that raised
Raised(exc) == [raised |-> exc]
IsRaised(v) == "raised" \in DOMAIN v

\* An Optional[Set[str]] value: None, or a set
PyNone == [none |-> TRUE, set |-> {}]
PySet(s) == [none |-> FALSE, set |-> s]
\* bool(x) of an Optional[Set[str]]: None and the empty set are falsy
Truthy(x) == ~x.none /\ x.set # {}

-----------------------------------------------------------------------------
(* settings.py is not among the sources; the module-level sets it defines  *)
(* are drawn from these configurations when the process starts.            *)

SettingsChoices ==
    { [DEFAULT_INCLUDES |-> {S("id"), Dot(S("properties"), S("datetime"))},
       INDEXED_FIELDS   |-> {S("datetime")}],
      [DEFAULT_INCLUDES |-> {S("id"), Dot(S("properties"), S("datetime"))},
       INDEXED_FIELDS   |-> {S("datetime"), S("gsd")}],
      [DEFAULT_INCLUDES |-> {S("id"), S("assets")},
       INDEXED_FIELDS   |-> {S("datetime"), S2("cog", "dtype")}] }

-----------------------------------------------------------------------------
(* Queryables (schemas.py 54-72): each member has a name and a str value.  *)

Queryables ==
    { [name |-> "orientation", value |-> S("orientation")],
      [name |-> "gsd",         value |-> S("gsd")],
      [name |-> "epsg",        value |-> S2("proj", "epsg")],
      [name |-> "height",      value |-> S("height")],
      [name |-> "width",       value |-> S("width")],
      [name |-> "minzoom",     value |-> S2("cog", "minzoom")],
      [name |-> "maxzoom",     value |-> S2("cog", "maxzoom")],
      [name |-> "dtype",       value |-> S2("cog", "dtype")] }

\* QueryableTypes (schemas.py 74-90): the declared type of each member, by name
QueryableTypes ==
    [n \in {q.name : q \in Queryables} |->
        CASE n \in {"orientation", "dtype"} -> "str"
          [] n = "gsd" -> "float"
          [] OTHER -> "int"]

\* Operator (schemas.py 31-51)
Operator == {"eq", "ne", "lt", "le", "gt", "ge"}

-----------------------------------------------------------------------------
(* Iteration order of a Python set of str. It is fixed by the process's    *)
(* hash seed and arbitrary across processes: under seed 0 a path is        *)
(* visited before the paths with more dots (a parent before its dotted     *)
(* children), under seed 1 after them.                                     *)

HashSeeds == {0, 1}

Before(seed, a, b) == IF seed = 0 THEN Len(a) <= Len(b) ELSE Len(a) >= Len(b)

RECURSIVE Iterate(_, _)
Iterate(seed, set) ==
    IF set = {} THEN <<>>
    ELSE LET x == CHOOSE x \in set : \A y \in set : Before(seed, x, y)
         IN  <<x>> \o Iterate(seed, set \ {x})

-----------------------------------------------------------------------------
(* FieldsExtension (schemas.py 93-137).                                    *)

\* field_dict[parent] = v
SetItem(d, k, v) == [x \in DOMAIN d \cup {k} |-> IF x = k THEN v ELSE d[x]]

\* The body of the loop of _get_field_dict, for one field: the dict after it,
\* or what it raised
field_dict_step(field_dict, field) ==
    IF HasDot(field)
    THEN LET parts == SplitDot(field)
         IN  IF Len(parts) # 2
             THEN Raised("ValueError")          \* parent, key = field.split(".")
             ELSE LET parent == parts[1]
                      key == parts[2]
                  IN  IF parent \notin DOMAIN field_dict
                      THEN [dict |-> SetItem(field_dict, parent, Keys({key}))]
                      ELSE IF field_dict[parent].whole
                           THEN Raised("AttributeError")   \* (...).add(key)
                           ELSE [dict |-> SetItem(field_dict, parent,
                                             Keys(field_dict[parent].keys \cup {key}))]
    ELSE [dict |-> SetItem(field_dict, field, Ellipsis)]

RECURSIVE field_dict_loop(_, _)
field_dict_loop(field_dict, fields) ==
    IF fields = <<>> THEN [dict |-> field_dict]
    ELSE LET next == field_dict_step(field_dict, Head(fields))
         IN  IF IsRaised(next) THEN next
             ELSE field_dict_loop(next.dict, Tail(fields))

\* FieldsExtension._get_field_dict(fields), iterating under hash seed `seed`
_get_field_dict(seed, fields) == field_dict_loop(<<>>, Iterate(seed, fields))

\* self.exclude - settings.DEFAULT_INCLUDES
ExcludeMinusDefaults(self, defaults) ==
    IF self.exclude.none THEN Raised("TypeError")
    ELSE [set |-> self.exclude.set \ defaults]

\* (mutant) include = defaultIncludes \cup include whenever include is supplied
filter_include_union(self, defaults) ==
    IF Truthy(self.include) THEN defaults \cup self.include.set ELSE defaults

\* The include set filter_fields builds (schemas.py 124-133)
filter_include(self, defaults) ==
    IF Truthy(self.include) /\ ~Truthy(self.exclude)
    THEN defaults \cup self.include.set
    ELSE IF Truthy(self.include) /\ Truthy(self.exclude)
         THEN (defaults \cup self.include.set) \ (self.exclude.set \ defaults)
         ELSE defaults

\* (mutant) include.update(self.include): the shared default set is grown in place
filter_fields_in_place(seed, self, defaults) ==
    LET grown == IF Truthy(self.include) THEN defaults \cup self.include.set ELSE defaults
        include == _get_field_dict(seed, filter_include(self, grown))
        minus == ExcludeMinusDefaults(self, grown)
        exclude == IF IsRaised(minus) THEN minus ELSE _get_field_dict(seed, minus.set)
    IN  [value    |-> IF IsRaised(include) THEN include
                      ELSE IF IsRaised(exclude) THEN exclude
                      ELSE [include |-> include.dict, exclude |-> exclude.dict],
         self     |-> self,
         defaults |-> grown]

\* FieldsExtension.filter_fields: what it returns (or raises), and the object
\* and the module-level default set as the call leaves them
filter_fields(seed, self, defaults) ==
    LET include == _get_field_dict(seed, filter_include(self, defaults))
        minus == ExcludeMinusDefaults(self, defaults)
        exclude == IF IsRaised(minus) THEN minus ELSE _get_field_dict(seed, minus.set)
    IN  [value    |-> IF IsRaised(include) THEN include
                      ELSE IF IsRaised(exclude) THEN exclude
                      ELSE [include |-> include.dict, exclude |-> exclude.dict],
         self     |-> self,
         defaults |-> defaults]

-----------------------------------------------------------------------------
(* STACSearch (schemas.py 178-214).                                        *)

\* Optional values: None (NoneOf keeps the shape of the type), or a value
NoneOf(shape) == [none |-> TRUE, v |-> shape]
Some(v) == [none |-> FALSE, v |-> v]
NoQuery == NoneOf({})
NoBbox == NoneOf(<<>>)
NoIntersects == NoneOf([type |-> "", coordinates |-> <<>>])
\* What polygon() returns for a request without a spatial filter
NoPolygon == [coords |-> <<>>, none |-> TRUE]

\* FieldsExtension(): include and exclude take the class defaults, set()
NewFieldsExtension == [include |-> PySet({}), exclude |-> PySet({})]

\* A request body without "fields"
NoFields == NoneOf(NewFieldsExtension)

\* (mutant) the declared default object itself, shared by every request
DefaultFieldShared(slot) == 0

\* The value pydantic gives `field` when the request carries no "fields":
\* a copy of the declared default FieldsExtension() (object 0), made for
\* this request, which is the object the request then owns
DefaultFieldRef(slot) == slot

\* Field validation of `query: Optional[Dict[Queryables, Dict[Operator, Any]]]`:
\* a key must be the value of a Queryables member, an operator a member of
\* Operator; the literal is Any and is taken as it is
QueryValid(query) ==
    \/ query.none
    \/ \A e \in query.v :
          /\ \E k \in Queryables : k.value = e.field
          /\ e.op \in Operator

\* The validated dict: each key replaced by its Queryables member
ParseQuery(query) ==
    IF query.none THEN NoQuery
    ELSE Some({[k   |-> CHOOSE k \in Queryables : k.value = e.field,
                op  |-> e.op,
                lit |-> e.lit] : e \in query.v})

\* The query_include set of include_query_fields (schemas.py 193-198)
query_include(query, indexed) ==
    {IF e.k.value \in indexed THEN e.k.value ELSE Dot(S("properties"), e.k.value)
        : e \in query.v}

\* The root validator include_query_fields, as its effect on values["field"]
include_query_fields(query, field, indexed) ==
    IF ~query.none /\ query.v # {}
    THEN IF ~Truthy(field.include)
         THEN [field EXCEPT !.include = PySet(query_include(query, indexed))]
         ELSE field       \* .include.union(query_include): the result is dropped
    ELSE field

\* shapely's Polygon.from_bounds(xmin, ymin, xmax, ymax)
FromBounds(b) ==
    [coords |-> << <<b[1], b[2]>>, <<b[1], b[4]>>, <<b[3], b[4]>>, <<b[3], b[2]>> >>,
     none   |-> FALSE]

\* shapely's shape(geojson): the polygon of the geometry's coordinates
Shape(geojson) == [coords |-> geojson.coordinates, none |-> FALSE]

\* STACSearch.polygon()
polygon(self) ==
    IF ~self.intersects.none
    THEN Shape(self.intersects.v)
    ELSE IF ~self.bbox.none
         THEN IF Len(self.bbox.v) = 4 THEN FromBounds(self.bbox.v)
              ELSE Raised("TypeError")     \* from_bounds(*bbox) with six values
         ELSE NoPolygon

-----------------------------------------------------------------------------
(* Item.get_database_model (database.py 84-113).                           *)

\* JSON / Python scalar values: a str (in the RFC 3339 format or not), an
\* int, a datetime, null
PyStr(fmt, v) == [t |-> "str", fmt |-> fmt, v |-> v]
PyInt(v) == [t |-> "int", fmt |-> "", v |-> v]
PyDatetime(v) == [t |-> "datetime", fmt |-> "", v |-> v]
PyNull == [t |-> "null", fmt |-> "", v |-> 0]

\* datetime.strptime(value, DATETIME_RFC339): the instant a well-formed str names
Strptime(value) ==
    IF value.t # "str" THEN Raised("TypeError")
    ELSE IF value.fmt # "rfc3339" THEN Raised("ValueError")
    ELSE PyDatetime(value.v)

\* instant.strftime(DATETIME_RFC339)
Strftime(instant) == PyStr("rfc3339", instant)

\* settings.FORBIDDEN_FIELDS (settings.py is not among the sources)
FORBIDDEN_FIELDS == {S("type"), S("stac_version")}

\* d restricted to the keys outside `exclude`: model.dict(exclude=...)
DictExclude(d, exclude) == [k \in DOMAIN d \ exclude |-> d[k]]

\* model.dict(exclude_none=True, exclude=...)
DictExcludeNone(d, exclude) ==
    [k \in {x \in DOMAIN d \ exclude : d[x] # PyNull} |-> d[k]]

\* The loop over settings.INDEXED_FIELDS (database.py 87-93)
RECURSIVE indexed_fields_loop(_, _, _)
indexed_fields_loop(indexed_fields, fields, properties) ==
    IF fields = <<>> THEN [dict |-> indexed_fields]
    ELSE LET field == Head(fields)
         IN  IF field \notin DOMAIN properties
             THEN Raised("AttributeError")      \* getattr(schema.properties, field)
             ELSE LET read == properties[field]
                      field_value == IF field = S("datetime") THEN Strptime(read)
                                     ELSE read
                  IN  IF IsRaised(field_value) THEN field_value
                      ELSE indexed_fields_loop(
                               SetItem(indexed_fields, LastColonPart(field), field_value),
                               Tail(fields), properties)

\* ga.shape.from_shape(shape(geometry), 4326)
FromShape(geometry, srid) == [t |-> "wkb", fmt |-> "", v |-> geometry.v, srid |-> srid]

SRID == 4326

\* (mutant) the bag keeps the indexed fields
stamped_properties_keep_indexed(properties, indexed, clock) ==
    LET stamp == Strftime(clock)
        created == IF S("created") \notin DOMAIN properties
                   THEN SetItem(properties, S("created"), stamp) ELSE properties
    IN  SetItem(created, S("updated"), stamp)

\* The properties dict with its timestamps (database.py 96-100)
stamped_properties(properties, indexed, clock) ==
    LET bag == DictExclude(properties, indexed)
        stamp == Strftime(clock)
        created == IF S("created") \notin DOMAIN bag
                   THEN SetItem(bag, S("created"), stamp) ELSE bag
    IN  SetItem(created, S("updated"), stamp)

\* Item.get_database_model(schema) at instant `clock`. `schema.top` holds the
\* item's own fields, `schema.properties` those of its properties model.
get_database_model(seed, schema, indexed, clock) ==
    LET loop == indexed_fields_loop(<<>>, Iterate(seed, indexed), schema.properties)
        rest == DictExcludeNone(schema.top,
                    FORBIDDEN_FIELDS \cup {S("geometry"), S("properties"), S("collection")})
        named == {S("collection_id"), S("geometry"), S("properties")}
    IN  IF IsRaised(loop) THEN loop
        ELSE IF \/ DOMAIN loop.dict \cap named # {}
                \/ DOMAIN rest \cap (named \cup DOMAIN loop.dict) # {}
             THEN Raised("TypeError")     \* dict() got multiple values for a keyword
             ELSE [columns    |-> [k \in DOMAIN loop.dict \cup DOMAIN rest \cup
                                         {S("collection_id"), S("geometry")} |->
                                      IF k = S("collection_id") THEN schema.top[S("collection")]
                                      ELSE IF k = S("geometry")
                                           THEN FromShape(schema.top[S("geometry")], SRID)
                                      ELSE IF k \in DOMAIN loop.dict THEN loop.dict[k]
                                      ELSE rest[k]],
                   properties |-> stamped_properties(schema.properties, indexed, clock)]

-----------------------------------------------------------------------------
(* Inputs.                                                                 *)

\* Field paths a caller may name in fields.include / fields.exclude
FieldPaths ==
    { S("id"), S("properties"),
      Dot(S("properties"), S("datetime")),
      Dot(S("properties"), S("gsd")),
      Dot(Dot(S("assets"), S("image")), S("href")) }

\* The subsets of `set` of at most `max` members
RECURSIVE BoundedSubsets(_, _)
BoundedSubsets(set, max) ==
    IF max = 0 THEN {{}}
    ELSE LET smaller == BoundedSubsets(set, max - 1)
         IN  smaller \cup {x \cup {e} : x \in smaller, e \in set}

\* Optional[Set[str]] values over `paths`, of at most `max` members
OptSets(paths, max) == {PyNone} \cup {PySet(x) : x \in BoundedSubsets(paths, max)}

\* Query literals: a str, an int, a float
Literals == {[type |-> "str", v |-> 0], [type |-> "int", v |-> 1], [type |-> "float", v |-> 15]}

\* Wire `query` values with at most `max` fields among `fields`
WireQueries(fields, ops, max) ==
    {NoQuery} \cup
    {Some(es) : es \in {x \in BoundedSubsets([field : fields, op : ops, lit : Literals], max) :
                            \A a, b \in x : a.field = b.field => a = b}}

\* Wire `fields` values: absent, or an object with include and exclude
WireFields(paths, max) ==
    {NoFields} \cup {Some(f) : f \in [include : OptSets(paths, max), exclude : OptSets(paths, max)]}

Ring == << <<0, 0>>, <<0, 5>>, <<5, 5>>, <<5, 0>>, <<0, 0>> >>
WireBboxes == {NoBbox, Some(<<0, 0, 10, 10>>), Some(<<0, 0, 0, 10, 10, 10>>)}
WireIntersects == {NoIntersects, Some([type |-> "Polygon", coordinates |-> Ring])}

\* Request bodies for one request followed through validation and use
SearchInputs ==
    [query      : WireQueries({q.value : q \in Queryables} \cup {S("unknown_field")},
                              {"eq", "startsWith"}, MaxQuery),
     fields     : WireFields({S("id"), Dot(S("properties"), S("gsd"))}, 1),
     bbox       : WireBboxes,
     intersects : WireIntersects]

\* Request bodies for requests in flight together
ConcurrentInputs ==
    [query      : {NoQuery,
                   Some({[field |-> S("gsd"), op |-> "ge", lit |-> [type |-> "float", v |-> 15]]}),
                   Some({[field |-> S2("proj", "epsg"), op |-> "eq", lit |-> [type |-> "int", v |-> 1]]})},
     fields     : {NoFields, Some([include |-> PySet({}), exclude |-> PySet({})]),
                   Some([include |-> PySet({S("id")}), exclude |-> PySet({})])},
     bbox       : {NoBbox},
     intersects : {NoIntersects}]

\* A key the item does not carry
Absent == [t |-> "absent", fmt |-> "", v |-> 0]

\* The attributes of a validated model: each name of `names` that `choice`
\* carries
Attributes(choice, names) ==
    [k \in {S(n) : n \in {x \in names : choice[x] # Absent}} |-> choice[k[1][1]]]

\* An undeclared property keeps its wire name
Extras(choice) ==
    IF choice.dtype = Absent THEN <<>>
    ELSE SetItem(<<>>, S2("cog", "dtype"), choice.dtype)

\* Validated items (schemas.Item): `properties` holds the attributes of the
\* NAIP_Properties model, where the wire name "proj:epsg" is the field
\* `epsg` (schemas.py 162) and an undeclared property keeps its wire name
ItemInputs ==
    { [top |-> Attributes(t, {"id", "collection", "geometry", "bbox", "links", "assets",
                              "type", "stac_version"}),
       properties |-> Attributes(q, {"datetime", "epsg", "gsd", "created", "updated"})
                      @@ Extras(q)] :
        t \in [id : {PyStr("text", 1)}, collection : {PyStr("text", 2)},
               geometry : {[t |-> "geojson", fmt |-> "", v |-> 3]},
               bbox : {PyStr("text", 4)}, links : {PyNull, PyStr("text", 5)},
               assets : {PyStr("text", 6)}, type : {PyStr("text", 7)},
               stac_version : {PyStr("text", 8)}],
        q \in [datetime : {PyStr("rfc3339", 0), PyStr("text", 0)},
               epsg : {PyInt(4326)},
               gsd : {Absent, PyInt(1)},
               dtype : {Absent, PyStr("text", 9)},
               created : {Absent, PyNull, PyStr("rfc3339", 0)},
               updated : {Absent, PyStr("rfc3339", 0)}] }

-----------------------------------------------------------------------------
(* Actions.                                                                *)

Slots == 1..MaxRequests

Remove(f, k) == [x \in DOMAIN f \ {k} |-> f[x]]

\* STACSearch(**body): field validation, the default for a missing `fields`,
\* then the root validator include_query_fields. `fields_set` keeps the
\* "fields" the body carried, as pydantic's __fields_set__ keeps whether it did.
Validate(slot, body) ==
    /\ slot \notin DOMAIN reqs
    /\ IF ~QueryValid(body.query)
       THEN /\ ret' = [op |-> "STACSearch", slot |-> slot, value |-> Raised("ValidationError")]
            /\ UNCHANGED <<heap, reqs>>
       ELSE LET query == ParseQuery(body.query)
                ref == IF body.fields.none THEN DefaultFieldRef(slot) ELSE slot
                made == IF body.fields.none THEN heap[0] ELSE body.fields.v
                heap1 == SetItem(heap, ref, made)
            IN  /\ heap' = SetItem(heap1, ref,
                                   include_query_fields(query, heap1[ref], INDEXED_FIELDS))
                /\ reqs' = SetItem(reqs, slot,
                               [query |-> query, field |-> ref, bbox |-> body.bbox,
                                intersects |-> body.intersects,
                                fields_set |-> body.fields])
                /\ ret' = [op |-> "STACSearch", slot |-> slot, value |-> [ok |-> TRUE]]
    /\ UNCHANGED <<DEFAULT_INCLUDES, INDEXED_FIELDS, hashSeed, now>>

MaxCalls == 2

\* obj.filter_fields
CallFilterFields(obj) ==
    /\ obj \in DOMAIN heap
    /\ LET out == filter_fields(hashSeed, heap[obj], DEFAULT_INCLUDES)
           nth == IF ret.op = "filter_fields" /\ ret.obj = obj /\ ret.nth < MaxCalls
                  THEN ret.nth + 1
                  ELSE IF ret.op = "filter_fields" /\ ret.obj = obj THEN ret.nth ELSE 1
       IN  /\ ret' = [op |-> "filter_fields", obj |-> obj, nth |-> nth, value |-> out.value]
           /\ heap' = SetItem(heap, obj, out.self)
           /\ DEFAULT_INCLUDES' = out.defaults
    /\ UNCHANGED <<INDEXED_FIELDS, hashSeed, reqs, now>>

\* search.field.filter_fields, for a validated request
RequestFilterFields(slot) ==
    /\ slot \in DOMAIN reqs
    /\ CallFilterFields(reqs[slot].field)

\* search.polygon()
CallPolygon(slot) ==
    /\ slot \in DOMAIN reqs
    /\ ret' = [op |-> "polygon", slot |-> slot, value |-> polygon(reqs[slot])]
    /\ UNCHANGED <<DEFAULT_INCLUDES, INDEXED_FIELDS, hashSeed, heap, reqs, now>>

\* The call ends: the request and the FieldsExtension it owns are dropped
Discard(slot) ==
    /\ slot \in DOMAIN reqs
    /\ reqs' = Remove(reqs, slot)
    /\ heap' = Remove(heap, slot)
    /\ ret' = [op |-> "done"]
    /\ UNCHANGED <<DEFAULT_INCLUDES, INDEXED_FIELDS, hashSeed, now>>

\* obj._get_field_dict(fields)
CallGetFieldDict(fields) ==
    /\ ret' = [op |-> "_get_field_dict", fields |-> fields,
               value |-> _get_field_dict(hashSeed, fields)]
    /\ UNCHANGED <<DEFAULT_INCLUDES, INDEXED_FIELDS, hashSeed, heap, reqs, now>>

\* database.Item.get_database_model(schema)
CallGetDatabaseModel(schema) ==
    /\ ret' = [op |-> "get_database_model", schema |-> schema, clock |-> now,
               value |-> get_database_model(hashSeed, schema, INDEXED_FIELDS, now)]
    /\ UNCHANGED <<DEFAULT_INCLUDES, INDEXED_FIELDS, hashSeed, heap, reqs, now>>

\* Time passes
Tick ==
    /\ now < MaxClock
    /\ now' = now + 1
    /\ UNCHANGED <<DEFAULT_INCLUDES, INDEXED_FIELDS, hashSeed, heap, reqs, ret>>

-----------------------------------------------------------------------------
(* Specifications.                                                         *)

InitProcess ==
    /\ \E c \in SettingsChoices :
          /\ DEFAULT_INCLUDES = c.DEFAULT_INCLUDES
          /\ INDEXED_FIELDS = c.INDEXED_FIELDS
    /\ hashSeed \in HashSeeds
    /\ reqs = <<>>
    /\ now = 1
    /\ ret = [op |-> "start"]

\* One search request at a time, over the whole input space
Init ==
    /\ InitProcess
    /\ heap = SetItem(<<>>, 0, NewFieldsExtension)

Next ==
    \/ \E body \in SearchInputs : Validate(1, body)
    \/ RequestFilterFields(1)
    \/ CallPolygon(1)
    \/ Discard(1)

Spec == Init /\ [][Next]_vars

\* Several search requests in flight, their steps interleaved
ConcurrentNext ==
    \E slot \in Slots :
        \/ \E body \in ConcurrentInputs : Validate(slot, body)
        \/ RequestFilterFields(slot)
        \/ Discard(slot)

ConcurrentSpec == Init /\ [][ConcurrentNext]_vars

\* The field projection engine on every FieldsExtension (object 1)
ProjectionInit ==
    /\ InitProcess
    /\ \E f \in [include : OptSets(FieldPaths, MaxFields),
                  exclude : OptSets(FieldPaths, MaxFields)] :
          heap = SetItem(SetItem(<<>>, 0, NewFieldsExtension), 1, f)

ProjectionNext ==
    \/ CallFilterFields(1)
    \/ \E fields \in BoundedSubsets(FieldPaths, MaxFields) : CallGetFieldDict(fields)

ProjectionSpec == ProjectionInit /\ [][ProjectionNext]_vars

\* Ingest of items as time passes
IngestNext ==
    \/ \E schema \in ItemInputs : CallGetDatabaseModel(schema)
    \/ Tick

IngestSpec == Init /\ [][IngestNext]_vars

-----------------------------------------------------------------------------
(* Reading a selector map.                                                 *)

\* The paths a selector map names
Paths(d) ==
    {k \in DOMAIN d : d[k].whole} \cup
    UNION {{Dot(k, c) : c \in d[k].keys} : k \in DOMAIN d}

\* Whether a selector map selects path p: p's top-level segment as a whole
\* field, or p itself as a child key of its parent
Covers(d, p) ==
    /\ <<p[1]>> \in DOMAIN d
    /\ \/ d[<<p[1]>>].whole
       \/ Len(p) = 2 /\ <<p[2]>> \in d[<<p[1]>>].keys

\* d selects every path of `set` and names no path outside it
Selects(d, set) == (\A p \in set : Covers(d, p)) /\ Paths(d) \subseteq set

\* The last call was `op` and returned
Returned(op) == ret.op = op /\ ~IsRaised(ret.value)

-----------------------------------------------------------------------------
(* Claims.                                                                 *)

\* C1: whenever the projection of a validated request is resolved, its
\* include part selects every queried field: by its top-level name when the
\* field is in INDEXED_FIELDS, as properties.<name> otherwise.
C1_QueryFieldsProjected ==
    \A slot \in DOMAIN reqs :
        (Returned("filter_fields") /\ ret.obj = reqs[slot].field) =>
            \A e \in reqs[slot].query.v :
                Covers(ret.value.include,
                       IF e.k.value \in INDEXED_FIELDS THEN e.k.value
                       ELSE Dot(S("properties"), e.k.value))

\* C2: a policy returned by filter_fields selects every member of
\* DEFAULT_INCLUDES in its include part and none in its exclude part.
C2_DefaultsNeverExcluded ==
    Returned("filter_fields") =>
        \A m \in DEFAULT_INCLUDES :
            Covers(ret.value.include, m) /\ ~Covers(ret.value.exclude, m)

\* filter_fields returned for an object with both include and exclude supplied
BothSupplied ==
    /\ Returned("filter_fields")
    /\ Truthy(heap[ret.obj].include)
    /\ Truthy(heap[ret.obj].exclude)

TypeMatches(lit, declared) ==
    lit.type = declared \/ (declared = "float" /\ lit.type = "int")

\* C4: no validated request carries a query literal whose type differs from
\* the declared type of the queried field.
C4_TypeMismatchRejected ==
    \A slot \in DOMAIN reqs :
        \A e \in reqs[slot].query.v : TypeMatches(e.lit, QueryableTypes[e.k.name])

ShortName(field) == S(field[1][Len(field[1])])

\* C6: in every record get_database_model returns, each field of
\* INDEXED_FIELDS is a first-class key, named by the part of its name after
\* the last ":", carrying the value read from the item's properties (the
\* instant it names, for datetime), and is no key of the attribute bag.
C6_IndexedFieldsFirstClass ==
    Returned("get_database_model") =>
        \A f \in INDEXED_FIELDS :
            /\ ShortName(f) \in DOMAIN ret.value.columns
            /\ f \in DOMAIN ret.schema.properties
            /\ ret.value.columns[ShortName(f)] =
                   IF f = S("datetime") THEN PyDatetime(ret.schema.properties[f].v)
                   ELSE ret.schema.properties[f]
            /\ f \notin DOMAIN ret.value.properties

C6_Witness ==
    /\ Returned("get_database_model")
    /\ S2("cog", "dtype") \in INDEXED_FIELDS
    /\ S("gsd") \in DOMAIN ret.value.properties

\* C7: after every ingest the bag's `updated` is the current instant, and
\* its `created` is the caller's value when one was given, the current
\* instant otherwise, and never null or missing.
C7_TimestampsStamped ==
    Returned("get_database_model") =>
        LET bag == ret.value.properties
            given == ret.schema.properties
        IN  /\ S("updated") \in DOMAIN bag /\ bag[S("updated")] = Strftime(ret.clock)
            /\ S("created") \in DOMAIN bag
            /\ bag[S("created")] = IF S("created") \in DOMAIN given THEN given[S("created")]
                                    ELSE Strftime(ret.clock)
            /\ bag[S("created")] # PyNull

C9_FieldDictTotal ==
    ret.op = "_get_field_dict" =>
        /\ ~IsRaised(ret.value)
        /\ \A p \in ret.fields :
               IF Len(p) = 1 THEN p \in DOMAIN ret.value.dict /\ ret.value.dict[p].whole
               ELSE \/ <<p[1]>> \in ret.fields
                    \/ /\ <<p[1]>> \in DOMAIN ret.value.dict
                       /\ ret.value.dict[<<p[1]>>] =
                              Keys({SubSeq(q, 2, Len(q)) : q \in {x \in ret.fields : x[1] = p[1]}})

\* The request carried neither a query nor fields
Bare(search) == search.query.v = {} /\ search.fields_set.none

\* C10: the projection resolved for a request names only default fields,
\* the request's own fields.include and the fields of its own query; a
\* request with no query and no fields resolves to include =
\* DEFAULT_INCLUDES and exclude = {}.
C10_RequestsIsolated ==
    \A slot \in DOMAIN reqs :
        (ret.op = "filter_fields" /\ ret.obj = reqs[slot].field) =>
            LET search == reqs[slot]
                own == DEFAULT_INCLUDES \cup search.fields_set.v.include.set \cup
                       {e.k.value : e \in search.query.v} \cup
                       {Dot(S("properties"), e.k.value) : e \in search.query.v}
            IN  /\ Returned("filter_fields") => Paths(ret.value.include) \subseteq own
                /\ Bare(search) =>
                       /\ Returned("filter_fields")
                       /\ Paths(ret.value.include) = DEFAULT_INCLUDES
                       /\ DOMAIN ret.value.exclude = {}

C10_Witness ==
    \E a, b \in DOMAIN reqs :
        /\ a # b
        /\ reqs[a].fields_set.none /\ reqs[a].query.v # {}
        /\ Bare(reqs[b])
        /\ Returned("filter_fields") /\ ret.obj = reqs[b].field

=============================================================================
